---- MODULE Spec2Model ----
(***************************************************************************)
(* A model of pygeodesy.geohash: the bisection codec (encode, bounds,      *)
(* decode), the table-driven adjacency, the Geohash cell with its lazily   *)
(* filled caches, the precision/resolution conversion and the tier-1       *)
(* distance estimate.                                                      *)
(*                                                                         *)
(* Numbers.  Every box edge and centre the codec produces is a dyadic      *)
(* fraction of the domain, so a latitude is an integer counted in the unit *)
(* 180/2^31 degree and a longitude an integer counted in the unit 360/2^31 *)
(* degree: on both axes the domain is -2^30 .. 2^30, the box of a          *)
(* 12-character geohash is 2 units wide and 2 units high and its centre is *)
(* an odd number.  On these values Python's float arithmetic (favg,        *)
(* subtraction, comparison) is exact, and so is the model's.  The two axes *)
(* are never mixed by the codec.  The resolutions of resolution2 are kept  *)
(* as floats, a mantissa and a binary exponent.                            *)
(*                                                                         *)
(* Strings are sequences of one-character strings; Python's None is the    *)
(* empty sequence, an optional argument is <<>> or <<value>>.              *)
(***************************************************************************)
EXTENDS Integers, Sequences, FiniteSets, TLC

\* self: the Geohash instance; args: the call made; ret: what it returned
VARIABLES self, args, ret

vars == <<self, args, ret>>

None == <<>>

(***************************************************************************)
(* Bounds of the model.                                                    *)
(***************************************************************************)
\* geohash strings are enumerated up to this length
MaxLen == 2
\* coordinates are drawn from a grid of 2^GridBits steps per axis
GridBits == 2
\* the threads that get the cached properties of one instance
NumThreads == 2
\* the number of steps of a walk from cell to adjacent cell
MaxSteps == 4

(***************************************************************************)
(* Module constants, geohash.py lines 42-78.                               *)
(***************************************************************************)
\* 90 degrees of latitude and 180 degrees of longitude, each in its unit
Deg90 == 2^30

Deg180 == 2^30

_4d(n, e, s, w) == [N |-> <<n, e>>, S |-> <<s, w>>, E |-> <<e, n>>, W |-> <<w, s>>]

\* border tables with north and south, and east and west, exchanged
_BorderMirrored ==
  _4d(<<"0","2","8","b">>, <<"0","1","4","5","h","j","n","p">>,
      <<"p","r","x","z">>, <<"b","c","f","g","u","v","y","z">>)

_Border == _4d(<<"p","r","x","z">>,
               <<"b","c","f","g","u","v","y","z">>,
               <<"0","2","8","b">>,
               <<"0","1","4","5","h","j","n","p">>)

\* neighbour tables of which the first has lost the character "p"
_NeighborCorrupt == _4d(
  <<"a","0","r","2","1","4","3","6","x","8","z","b","9","d","c","f","5","h","7","k","j","n","m","q","e","s","g","u","t","w","v","y">>,
  <<"b","c","0","1","f","g","4","5","2","3","8","9","6","7","d","e","u","v","h","j","y","z","n","p","k","m","s","t","q","r","w","x">>,
  <<"1","4","3","6","5","h","7","k","9","d","c","f","e","s","g","u","j","n","m","q","p","0","r","2","t","w","v","y","x","8","z","b">>,
  <<"2","3","8","9","6","7","d","e","b","c","0","1","f","g","4","5","k","m","s","t","q","r","w","x","u","v","h","j","y","z","n","p">>)

_Neighbor == _4d(
  <<"p","0","r","2","1","4","3","6","x","8","z","b","9","d","c","f","5","h","7","k","j","n","m","q","e","s","g","u","t","w","v","y">>,
  <<"b","c","0","1","f","g","4","5","2","3","8","9","6","7","d","e","u","v","h","j","y","z","n","p","k","m","s","t","q","r","w","x">>,
  <<"1","4","3","6","5","h","7","k","9","d","c","f","e","s","g","u","j","n","m","q","p","0","r","2","t","w","v","y","x","8","z","b">>,
  <<"2","3","8","9","6","7","d","e","b","c","0","1","f","g","4","5","k","m","s","t","q","r","w","x","u","v","h","j","y","z","n","p">>)

_Bounds4 == <<-Deg90, -Deg180, Deg90, Deg180>>

_MaxPrec == 12

_GeohashBase32 ==
  <<"0","1","2","3","4","5","6","7","8","9","b","c","d","e","f","g","h","j","k","m","n","p","q","r","s","t","u","v","w","x","y","z">>

\* str.find: the 0-based index of the first c in s, -1 when there is none
Find(s, c) ==
  IF \E k \in 1..Len(s) : s[k] = c
    THEN (CHOOSE k \in 1..Len(s) : s[k] = c /\ \A j \in 1..(k-1) : s[j] # c) - 1
    ELSE -1

\* the inverse map: c in _DecodedBase32, and _DecodedBase32[c]
InDecodedBase32(c) == Find(_GeohashBase32, c) >= 0

_DecodedBase32(c) == Find(_GeohashBase32, c)

(***************************************************************************)
(* Results: what a call returned, or the error it raised.                  *)
(***************************************************************************)
Return(v) == [ok |-> TRUE, val |-> v]

Raise(e) == [ok |-> FALSE, val |-> e]

\* an exception raised by r propagates, otherwise F goes on with its value
Try(r, F(_)) == IF r.ok THEN F(r.val) ELSE r

(***************************************************************************)
(* The collaborators geohash.py imports: the mean of two floats and the    *)
(* range-checking units.                                                   *)
(***************************************************************************)
\* fmath.favg(v1, v2): the midpoint, exact on the dyadic grid
favg(v1, v2) == (v1 + v2) \div 2

\* units.Lat, units.Lon: the value, or the error when it is out of range
Lat(lat, Error) == IF -Deg90 <= lat /\ lat <= Deg90 THEN Return(lat) ELSE Raise(Error)

Lon(lon, Error) == IF -Deg180 <= lon /\ lon <= Deg180 THEN Return(lon) ELSE Raise(Error)

\* units.Precision_(precision, Error=GeohashError, low=1, high=_MaxPrec)
Precision_(precision, Error, low, high) ==
  IF low <= precision /\ precision <= high THEN Return(precision) ELSE Raise(Error)

\* _2fll: (Lat(lat), Lon(lon)), the first error raised wins
_2fll(lat, lon) ==
  Try(Lat(lat, "GeohashError"), LAMBDA a : Try(Lon(lon, "GeohashError"), LAMBDA b : Return(<<a, b>>)))

\* _2center: a Bounds4Tuple is (latS, lonW, latN, lonE)
_2center(b) == <<favg(b[3], b[1]), favg(b[4], b[2])>>

(***************************************************************************)
(* Strings: case folding and the check of a geohash string.                *)
(***************************************************************************)
UpperChars ==
  <<"A","B","C","D","E","F","G","H","I","J","K","L","M","N","O","P","Q","R","S","T","U","V","W","X","Y","Z">>

LowerChars ==
  <<"a","b","c","d","e","f","g","h","i","j","k","l","m","n","o","p","q","r","s","t","u","v","w","x","y","z">>

\* str.lower and str.upper, character by character
LowerChar(c) == IF Find(UpperChars, c) >= 0 THEN LowerChars[Find(UpperChars, c) + 1] ELSE c

UpperChar(c) == IF Find(LowerChars, c) >= 0 THEN UpperChars[Find(LowerChars, c) + 1] ELSE c

\* a check that would not fold the case
Unfolded(s) == s

lower(s) == [k \in 1..Len(s) |-> LowerChar(s[k])]

upper(s) == [k \in 1..Len(s) |-> UpperChar(s[k])]

\* the check of _2geostr on the lower-case string
Checked(geohash) ==
  IF \E k \in 1..Len(geohash) : ~InDecodedBase32(geohash[k]) THEN Raise("GeohashError")
  ELSE Return(geohash)

\* _2geostr: the lower-case string, or GeohashError
_2geostr(geohash) ==
  IF ~(0 < Len(geohash) /\ Len(geohash) <= _MaxPrec) THEN Raise("GeohashError")
  ELSE Checked(lower(geohash))

(***************************************************************************)
(* The codec: bounds (decode) and encode.                                  *)
(***************************************************************************)
\* i & m for a one-bit mask m
BitAnd(i, m) == ((i \div m) % 2) * m

\* the masks taken from the lowest bit up
LowestFirst == <<1, 2, 4, 8, 16>>

\* the masks of the inner loop, for m in (16, 8, 4, 2, 1)
Masks == <<16, 8, 4, 2, 1>>

\* one pass of the inner loop of bounds: box is <<s, w, n, e>>, d the axis flag
BisectBox(box, d, i, m) ==
  IF d THEN (IF BitAnd(i, m) # 0
               THEN <<box[1], favg(box[2], box[4]), box[3], box[4]>>
               ELSE <<box[1], box[2], box[3], favg(box[2], box[4])>>)
       ELSE (IF BitAnd(i, m) # 0
               THEN <<favg(box[1], box[3]), box[2], box[3], box[4]>>
               ELSE <<box[1], box[2], favg(box[1], box[3]), box[4]>>)

\* the axis the first bit of bounds bisects: d = True, the longitude
BoundsFirstAxis == TRUE

RECURSIVE bounds_loop(_, _)
\* the loops of bounds over the characters of gh and the five masks; st is
\* <<k, box, d>>: the bits read so far, the box <<s, w, n, e>>, the axis flag
bounds_loop(gh, st) ==
  IF st[1] >= 5 * Len(gh) THEN st[2]
  ELSE bounds_loop(gh, <<st[1] + 1,
                         BisectBox(st[2], st[3], _DecodedBase32(gh[(st[1] \div 5) + 1]),
                                   Masks[(st[1] % 5) + 1]),
                         ~st[3]>>)

\* a bounds that would read no more than the first 11 characters
Truncated(gh) ==
  bounds_loop(SubSeq(gh, 1, IF Len(gh) < _MaxPrec THEN Len(gh) ELSE _MaxPrec - 1), <<0, _Bounds4, BoundsFirstAxis>>)

\* bounds of a checked geohash string: <<latS, lonW, latN, lonE>>
bounds4(gh) == bounds_loop(gh, <<0, _Bounds4, BoundsFirstAxis>>)

\* an encode that would bisect the latitude first
LatitudeFirst == FALSE

\* the axis the first bit of encode bisects: d = True, the longitude
EncodeFirstAxis == TRUE

\* a bisection that would keep a coordinate on the midpoint in the lower half
AtOrBelow(x, m) == x <= m

\* whether the bisection of encode keeps the lower half: lon < m, lat < m
Below(x, m) == x < m

\* one pass of the while loop of encode; st is [p, b, i, d, box, gh]: the
\* characters to go, the bits gathered in i, the axis flag, the box
\* <<s, w, n, e>> and the characters so far
encode_step(lat, lon, st) ==
  LET m  == IF st.d THEN favg(st.box[4], st.box[2]) ELSE favg(st.box[3], st.box[1])
      lo == IF st.d THEN Below(lon, m) ELSE Below(lat, m)
      i  == IF lo THEN st.i + st.i ELSE st.i + st.i + 1
      bx == IF st.d THEN (IF lo THEN <<st.box[1], st.box[2], st.box[3], m>>
                                ELSE <<st.box[1], m, st.box[3], st.box[4]>>)
                    ELSE (IF lo THEN <<st.box[1], st.box[2], m, st.box[4]>>
                                ELSE <<m, st.box[2], st.box[3], st.box[4]>>)
  IN  IF st.b + 1 = 5
        THEN [p |-> st.p - 1, b |-> 0, i |-> 0, d |-> ~st.d, box |-> bx,
              gh |-> Append(st.gh, _GeohashBase32[i + 1])]
        ELSE [p |-> st.p, b |-> st.b + 1, i |-> i, d |-> ~st.d, box |-> bx, gh |-> st.gh]

RECURSIVE encode_loop(_, _, _)
\* the while loop of encode
encode_loop(lat, lon, st) ==
  IF ~(st.p > 0) THEN st.gh ELSE encode_loop(lat, lon, encode_step(lat, lon, st))

\* an encode that would let the precision pick the axis of the first bit
ByPrecision(lat, lon, p) ==
  encode_loop(lat, lon, [p |-> p, b |-> 0, i |-> 0, d |-> p % 2 = 1, box |-> _Bounds4, gh |-> <<>>])

\* encode for a checked coordinate and a checked precision p
encode_p(lat, lon, p) ==
  encode_loop(lat, lon, [p |-> p, b |-> 0, i |-> 0, d |-> EncodeFirstAxis, box |-> _Bounds4, gh |-> <<>>])

(***************************************************************************)
(* decode: the centre of the box, each axis rounded to                     *)
(* int(2 - log10(size)) decimal places.  A decimal is a record             *)
(* [neg, int, frac, prec]: the value (-1)^neg * (int + frac / 10^prec).    *)
(***************************************************************************)
Abs(x) == IF x < 0 THEN -x ELSE x

\* the binary places of a unit: 45 degrees are 2^LatShift units of latitude
\* and 2^LonShift units of longitude
LatShift == CHOOSE S \in 0..30 : 2 * 2^S = Deg90

LonShift == CHOOSE S \in 0..30 : 4 * 2^S = Deg180

\* (c * f) \div 2^S and (c * f) % 2^S for 0 <= f < 2^S and c <= 100, in
\* halves of 14 bits to stay within 32 bits
MulDiv(f, c, S) ==
  LET fh  == f \div 2^14
      fl  == f % 2^14
      t   == c * fh + (c * fl) \div 2^14
      low == (c * fl) % 2^14
  IN  <<t \div 2^(S - 14), (t % 2^(S - 14)) * 2^14 + low>>

\* 100 degrees in units of 45 / 2^S degree, rounded down
Deg100(S) == (2^S \div 45) * 100 + ((2^S % 45) * 100) \div 45

\* int(2 - log10(h)) for a size h > 0 in units: the number of times h can
\* be multiplied by ten and stay at most 100 degrees (0 when h is larger)
RECURSIVE DecimalPlaces(_, _, _)
DecimalPlaces(h, S, k) ==
  IF k < 9 /\ h <= Deg100(S) \div (10^(k + 1)) THEN DecimalPlaces(h, S, k + 1) ELSE k

\* the whole degrees of x >= 0 units and the numerator f of the rest, f / 2^S
WholeAndRest(x, S) ==
  <<45 * (x \div 2^S) + MulDiv(x % 2^S, 45, S)[1], MulDiv(x % 2^S, 45, S)[2]>>

RECURSIVE Digits(_, _, _, _)
\* the first k decimal digits of f / 2^S as a number, and the rest after them
Digits(f, S, k, acc) ==
  IF k = 0 THEN <<acc, f>>
  ELSE Digits(MulDiv(f, 10, S)[2], S, k - 1, 10 * acc + MulDiv(f, 10, S)[1])

\* a decimal; minus zero reads back as zero
Decimal(neg, int, frac, prec) == [neg |-> neg /\ (int # 0 \/ frac # 0), int |-> int, frac |-> frac, prec |-> prec]

\* the carry of a fraction rounded up to one
Carried(neg, whole, frac, prec) ==
  IF frac = 10^prec THEN Decimal(neg, whole + 1, 0, prec) ELSE Decimal(neg, whole, frac, prec)

\* round half-even: dr is <<the digits kept, the rest after them>>
HalfEven(neg, whole, dr, S, prec) ==
  IF dr[2] > 2^(S - 1) \/ (dr[2] = 2^(S - 1) /\ (IF prec = 0 THEN whole ELSE dr[1]) % 2 = 1)
    THEN Carried(neg, whole, dr[1] + 1, prec)
    ELSE Carried(neg, whole, dr[1], prec)

Rounded(neg, wr, S, prec) == HalfEven(neg, wr[1], Digits(wr[2], S, prec, 0), S, prec)

\* streprs.fstr(x, prec) read back by float(): x units rounded half-even to
\* prec decimal places of a degree
fstr(x, S, prec) == Rounded(x < 0, WholeAndRest(Abs(x), S), S, prec)

\* whether wr, <<whole degrees, rest>>, spells exactly the digits of t
SameDigits(wr, dr, t) == dr[2] = 0 /\ wr[1] = t.int /\ dr[1] = t.frac

ExactDigits(wr, S, t) == SameDigits(wr, Digits(wr[2], S, t.prec, 0), t)

\* abs(x - float(t)) < EPS for x units and a decimal t: on the grid two values
\* closer than EPS = 2^-52 are equal, so x must have exactly t's digits
WithinEPS(x, S, t) ==
  /\ ExactDigits(WholeAndRest(Abs(x), S), S, t)
  /\ (x < 0 /\ (t.int # 0 \/ t.frac # 0)) = t.neg

\* the height and the width of a box
Sized(b) == <<b, b[3] - b[1], b[4] - b[2]>>

\* _bounds3: (bounds, height, width)
_bounds3(gh) == Sized(bounds4(gh))

\* the two strings of decode from the centre c and the sizes
Strings2(c, height, width) ==
  <<fstr(c[1], LatShift, DecimalPlaces(height, LatShift, 0)),
    fstr(c[2], LonShift, DecimalPlaces(width, LonShift, 0))>>

\* a decode that would keep every decimal place of the centre
Unrounded(b3) == Strings2(_2center(b3[1]), 1, 1)

Decoded(b3) == Strings2(_2center(b3[1]), b3[2], b3[3])

\* decode of a checked geohash string: (latStr, lonStr)
decode(gh) == Decoded(_bounds3(gh))

\* abs(lat - float(ll[0])) < EPS and abs(lon - float(ll[1])) < EPS
Qualifies(lat, lon, ll) == WithinEPS(lat, LatShift, ll[1]) /\ WithinEPS(lon, LonShift, ll[2])

RECURSIVE encode_infer(_, _, _)
\* one pass of the loop of encode for precision=None: gh is encode(lat, lon, p)
Inferred(lat, lon, p, gh) ==
  IF Qualifies(lat, lon, decode(gh)) THEN gh ELSE encode_infer(lat, lon, p + 1)

\* the loop of encode for precision=None, from precision p on
encode_infer(lat, lon, p) ==
  IF p > _MaxPrec THEN encode_p(lat, lon, _MaxPrec)
  ELSE Inferred(lat, lon, p, encode_p(lat, lon, p))

\* an encode that would infer the precision whenever "not precision"
IsFalsy(precision) == precision = None \/ precision[1] = 0

\* whether encode infers the precision: precision is None
IsNone(precision) == precision = None

\* encode for a checked coordinate ll
encode_ll(ll, precision) ==
  IF IsNone(precision) THEN Return(encode_infer(ll[1], ll[2], 1))
  ELSE Try(Precision_(precision[1], "GeohashError", 1, _MaxPrec), LAMBDA p : Return(encode_p(ll[1], ll[2], p)))

\* encode(lat, lon, precision=None): the geohash, or the error raised
encode(lat, lon, precision) == Try(_2fll(lat, lon), LAMBDA ll : encode_ll(ll, precision))

(***************************************************************************)
(* The Geohash class: construction.  An instance is a record of its string *)
(* and its cache fields; a cll argument is tagged with its Python type:    *)
(* [type |-> "Geohash", inst], [type |-> "str", s], [type |-> "LatLon",    *)
(* lat, lon] or [type |-> "object"] for anything else.                     *)
(***************************************************************************)
NewGeohash(gh, ll) ==
  [gh |-> gh, _bounds |-> None, _latlon |-> ll, _N |-> None, _E |-> None, _S |-> None, _W |-> None]

\* no instance
NoGeohash == NewGeohash(<<>>, None)

DecimalDigits == <<"0","1","2","3","4","5","6","7","8","9">>

RECURSIVE ParseDigits(_, _)
\* the number a string of decimal digits spells, -1 when it is not one
ParseDigits(s, acc) ==
  IF s = <<>> THEN acc
  ELSE IF Find(DecimalDigits, Head(s)) < 0 THEN -1
  ELSE ParseDigits(Tail(s), 10 * acc + Find(DecimalDigits, Head(s)))

\* a signed whole number of degrees in units of 45 / 2^S degree; the texts
\* of the model spell multiples of 45 degrees, which are whole units
ParseDegrees(s, S) ==
  LET neg == s # <<>> /\ Head(s) = "-"
      t   == IF neg THEN Tail(s) ELSE s
      n   == IF t = <<>> THEN -1 ELSE ParseDigits(t, 0)
  IN  IF n < 0 THEN Raise("ParseError")
      ELSE Return((IF neg THEN -1 ELSE 1) * (n \div 45) * 2^S)

\* dms.parse3llh: the latitude and longitude of a "lat,lon[,height]" text;
\* i is the place of its first comma
parse3llh_i(s, i, rest) ==
  Try(ParseDegrees(SubSeq(s, 1, i), LatShift), LAMBDA lat :
  Try(ParseDegrees(IF Find(rest, ",") < 0 THEN rest ELSE SubSeq(rest, 1, Find(rest, ",")), LonShift),
      LAMBDA lon : Return(<<lat, lon>>)))

parse3llh(s) == parse3llh_i(s, Find(s, ","), SubSeq(s, Find(s, ",") + 2, Len(s)))

\* __new__ from a location: the instance of encode(lat, lon, precision)
\* caching ll, or the error
GeohashOfLatLon(ll, precision) ==
  Try(encode(ll[1], ll[2], precision), LAMBDA gh :
      Return(NewGeohash(gh, ll)))

\* __new__ from a string: the instance of _2geostr(s), or the error
GeohashOfStr(s) == Try(_2geostr(s), LAMBDA gh : Return(NewGeohash(gh, None)))

\* the location a cll gives: parse3llh of a text, the lat and lon of a LatLon
LatLonOf(cll) ==
  IF cll.type = "str" THEN Try(parse3llh(cll.s), LAMBDA ll : _2fll(ll[1], ll[2]))
  ELSE _2fll(cll.lat, cll.lon)

\* Geohash.__new__(cls, cll, precision=None)
Geohash(cll, precision) ==
  IF cll.type = "Geohash" \/ (cll.type = "str" /\ Find(cll.s, ",") < 0)
    THEN GeohashOfStr(IF cll.type = "Geohash" THEN cll.inst.gh ELSE cll.s)
  ELSE IF cll.type \in {"str", "LatLon"}
    THEN Try(LatLonOf(cll), LAMBDA ll : GeohashOfLatLon(ll, precision))
  ELSE Raise("GeohashError")

\* _2Geohash: the instance itself, or a new one
_2Geohash(geohash) == IF geohash.type = "Geohash" THEN Return(geohash.inst) ELSE Geohash(geohash, None)

\* the module function bounds(geohash): <<latS, lonW, latN, lonE>>, or the error
bounds(geohash) == Try(_2Geohash(geohash), LAMBDA gh : Return(bounds4(lower(gh.gh))))

\* h * 0.5 and w * 0.5 of a (bounds, height, width)
Halves(b3) == <<b3[2] \div 2, b3[3] \div 2>>

\* the module function decode_error(geohash): <<the height error, the width
\* error>>, or the error raised
decode_error(geohash) == Try(bounds(geohash), LAMBDA b : Return(Halves(Sized(b))))

(***************************************************************************)
(* Geohash.adjacent.                                                       *)
(***************************************************************************)
\* a direction taken as written: direction[:1]
FirstChar(direction) == SubSeq(direction, 1, IF Len(direction) < 1 THEN Len(direction) ELSE 1)

\* d = direction[:1].upper()
DirectionKey(direction) == upper(SubSeq(direction, 1, IF Len(direction) < 1 THEN Len(direction) ELSE 1))

\* d not in _Neighbor
NotInNeighbor(d) == ~(Len(d) = 1 /\ d[1] \in DOMAIN _Neighbor)

\* a step that would never leave the parent cell
StaysInParent(p, c, d, e) == FALSE

\* p and (c in _Border[d][e]): the step leaves the parent cell
LeavesParent(p, c, d, e) == p # <<>> /\ Find(_Border[d][e + 1], c) >= 0

RECURSIVE adjacent_d(_, _)
\* an adjacent that would return the cell of the parent
WithoutLast(p, c, d, e, i) ==
  IF LeavesParent(p, c, d, e) THEN adjacent_d(p, d) ELSE GeohashOfStr(p)

\* the rest of adjacent: p the parent, c the last character, i its place in
\* the neighbour table
adjacent_i(p, c, d, e, i) ==
  IF i < 0 THEN Raise("GeohashError")
  ELSE Try(IF LeavesParent(p, c, d, e) THEN adjacent_d(p, d) ELSE Return(NewGeohash(p, None)),
           LAMBDA q : GeohashOfStr(q.gh \o <<_GeohashBase32[i + 1]>>))

\* an adjacent that would not follow a step north from a last character
\* "z" into the parent
Uncarried(gh, d) ==
  IF d = "N" /\ gh[Len(gh)] = "z"
  THEN GeohashOfStr(SubSeq(gh, 1, Len(gh) - 1)
                    \o <<_GeohashBase32[Find(_Neighbor[d][(Len(gh) % 2) + 1], "z") + 1]>>)
  ELSE adjacent_i(SubSeq(gh, 1, Len(gh) - 1), gh[Len(gh)], d, Len(gh) % 2,
                  Find(_Neighbor[d][(Len(gh) % 2) + 1], gh[Len(gh)]))

\* adjacent for a checked direction d, "N", "S", "E" or "W"
adjacent_d(gh, d) ==
  adjacent_i(SubSeq(gh, 1, Len(gh) - 1), gh[Len(gh)], d, Len(gh) % 2,
             Find(_Neighbor[d][(Len(gh) % 2) + 1], gh[Len(gh)]))

\* an adjacent that would stop at the edge of the domain: the cell itself
\* where its box touches the edge on the side of the direction
Clamped(inst, direction) ==
  IF NotInNeighbor(DirectionKey(direction)) THEN Raise("GeohashError")
  ELSE LET b == bounds4(inst.gh)
           d == DirectionKey(direction)[1]
       IN  IF \/ (d = "N" /\ b[3] = Deg90)
              \/ (d = "S" /\ b[1] = -Deg90)
              \/ (d = "E" /\ b[4] = Deg180)
              \/ (d = "W" /\ b[2] = -Deg180)
           THEN Return(inst)
           ELSE adjacent_d(inst.gh, d)

\* Geohash.adjacent(self, direction): the adjacent cell, or the error
adjacent(inst, direction) ==
  IF NotInNeighbor(DirectionKey(direction)) THEN Raise("GeohashError")
  ELSE adjacent_d(inst.gh, DirectionKey(direction)[1])

(***************************************************************************)
(* Cell sizes and the distance estimate.  The sizes are kept as written.   *)
(***************************************************************************)
_Sizes ==
  << <<"20032e3", "20000e3", "11292815.096">>,
     <<"5003e3", "5000e3", "2821794.075">>,
     <<"650e3", "1225e3", "503442.397">>,
     <<"156e3", "156e3", "88013.575">>,
     <<"19500", "39100", "15578.683">>,
     <<"4890", "4890", "2758.887">>,
     <<"610", "1220", "486.710">>,
     <<"153", "153", "86.321">>,
     <<"19.1", "38.2", "15.239">>,
     <<"4.77", "4.77", "2.691">>,
     <<"0.596", "1.19", "0.475">>,
     <<"0.149", "0.149", "0.084">>,
     <<"0.0186", "0.0372", "0.015">> >>

Min(S) == CHOOSE x \in S : \A y \in S : x <= y

\* the value of n after "for n in range(n): if a[n] != b[n]: break", n0 its
\* value before: the body rebinds n, so a loop that runs out leaves n0 - 1
LoopIndex(a, b, n0) ==
  LET differ == {k \in 0..(n0 - 1) : a[k + 1] # b[k + 1]}
  IN  IF differ # {} THEN Min(differ) ELSE IF n0 = 0 THEN n0 ELSE n0 - 1

\* Geohash.distance1To(self, other): the radial size, or the error
distance1To(inst, other) ==
  Try(_2Geohash(other), LAMBDA o :
      Return(_Sizes[LoopIndex(inst.gh, o.gh, Min({Len(inst.gh), Len(o.gh), Len(_Sizes)})) + 1][3]))

\* the module function distance1(geohash1, geohash2)
distance1(geohash1, geohash2) == Try(_2Geohash(geohash1), LAMBDA g : distance1To(g, geohash2))

(***************************************************************************)
(* Resolutions, in degrees, as floats [m, e] of value m * 2^e.             *)
(***************************************************************************)
f_360_0 == [m |-> 45, e |-> 3]
f_180_0 == [m |-> 45, e |-> 2]
f_0_0 == [m |-> 0, e |-> 0]

ldexp(x, k) == [m |-> x.m, e |-> x.e + k]

\* mantissas are below 2^MantissaBits in magnitude
MantissaBits == 12

\* x < y and x = y on floats: the finer exponent is the common one, and a
\* difference beyond the mantissa width is as good as the width
Scaled(x, y) ==
  LET k == IF x.e - y.e > MantissaBits + 1 THEN MantissaBits + 1 ELSE x.e - y.e
  IN  IF x.e >= y.e THEN x.m * 2^k ELSE x.m
FLess(x, y) == Scaled(x, y) < Scaled(y, x)
FEqual(x, y) == Scaled(x, y) = Scaled(y, x)

\* the tuple comparison (x1, x2) <= (y1, y2) of Python
TupleLessEq(x, y) == FLess(x[1], y[1]) \/ (FEqual(x[1], y[1]) /\ ~FLess(y[2], x[2]))

\* units.Degrees_(res, low=0.0): the value, or the error below low
Degrees_(res, low) == IF FLess(res, low) THEN Raise("GeohashError") ELSE Return(res)

\* "if prec:" of an optional int
Truthy(prec) == prec # None /\ prec[1] # 0

\* p = 5 * max(0, min(Int(prec), _MaxPrec))
Bits5(prec) == 5 * (IF prec[1] < 0 THEN 0 ELSE IF prec[1] > _MaxPrec THEN _MaxPrec ELSE prec[1])

\* resolution2(prec1, prec2=None): <<res1, res2>>
resolution2(prec1, prec2) ==
  LET res1 == IF Truthy(prec1) THEN ldexp(f_360_0, -(Bits5(prec1) - Bits5(prec1) \div 2)) ELSE f_360_0
      res2 == IF Truthy(prec1) THEN res1 ELSE f_180_0
  IN  <<res1, IF Truthy(prec2) THEN ldexp(res2, -(Bits5(prec2) \div 2)) ELSE res2>>

\* a comparison that would ask for a strictly finer resolution
StrictlyFiner(r, t) == FLess(r[1], t[1]) \/ (FEqual(r[1], t[1]) /\ FLess(r[2], t[2]))

\* "resolution2(p, q) <= t" of the loops of precision
Meets(r, t) == TupleLessEq(r, t)

RECURSIVE precision_loop(_, _, _)
\* for p in range(1, _MaxPrec): if resolution2(p, p or None) <= t: return p
precision_loop(p, both, t) ==
  IF p >= _MaxPrec THEN _MaxPrec
  ELSE IF Meets(resolution2(<<p>>, IF both THEN <<p>> ELSE None), t) THEN p
  ELSE precision_loop(p + 1, both, t)

\* precision(res1, res2=None): the precision 1..12, or the error
precision(res1, res2) ==
  IF ~Degrees_(res1, f_0_0).ok THEN Degrees_(res1, f_0_0)
  ELSE IF res2 = None THEN Return(precision_loop(1, FALSE, <<res1, res1>>))
  ELSE IF ~Degrees_(res2[1], f_0_0).ok THEN Degrees_(res2[1], f_0_0)
  ELSE Return(precision_loop(1, TRUE, <<res1, res2[1]>>))

(***************************************************************************)
(* The Geohash class: the cached properties.  Each yields <<the instance   *)
(* afterwards, the result>>.                                               *)
(***************************************************************************)
\* Geohash.bounds(self): fills self._bounds when it is empty
bounds_m(inst) ==
  IF inst._bounds = None
    THEN (<<[inst EXCEPT !._bounds = bounds([type |-> "Geohash", inst |-> inst]).val],
            bounds([type |-> "Geohash", inst |-> inst])>>)
    ELSE <<inst, Return(inst._bounds)>>

\* the instance with its centre cached, and the centre
Centred(inst) == <<[inst EXCEPT !._latlon = _2center(inst._bounds)], Return(_2center(inst._bounds))>>

\* Geohash.latlon: fills self._latlon, through self.bounds(), when it is empty
latlon(inst) ==
  IF inst._latlon = None THEN Centred(bounds_m(inst)[1]) ELSE <<inst, Return(inst._latlon)>>

\* the cache field of a cardinal direction
Cached(inst, d) == IF d = "N" THEN inst._N ELSE IF d = "S" THEN inst._S
                   ELSE IF d = "E" THEN inst._E ELSE inst._W

WithCached(inst, d, v) == IF d = "N" THEN [inst EXCEPT !._N = v] ELSE IF d = "S" THEN [inst EXCEPT !._S = v]
                          ELSE IF d = "E" THEN [inst EXCEPT !._E = v] ELSE [inst EXCEPT !._W = v]

\* a property that would return the neighbour without keeping it
Unkept(inst, d, a) == <<inst, a>>

\* the instance after self._X = a, unchanged when adjacent raised, and a
Filled(inst, d, a) == <<IF a.ok THEN WithCached(inst, d, a.val) ELSE inst, a>>

\* Geohash.N, .S, .E, .W: fills the cache field with self.adjacent(d)
cardinal(inst, d) ==
  IF Cached(inst, d) # None THEN <<inst, Return(Cached(inst, d))>>
  ELSE Filled(inst, d, adjacent(inst, <<d>>))

\* diagonals that would step along the longitude first: NE as self.E.N
LongitudeFirst == [NE |-> <<"E", "N">>, NW |-> <<"W", "N">>, SE |-> <<"E", "S">>, SW |-> <<"W", "S">>]

\* the two cardinal properties a diagonal property chains: NE is self.N.E
Diagonals == [NE |-> <<"N", "E">>, NW |-> <<"N", "W">>, SE |-> <<"S", "E">>, SW |-> <<"S", "W">>]

\* the instance with the neighbour n[1] in its cache field d1, and what the
\* property of the neighbour gave
Nested(inst, d1, n) == <<WithCached(inst, d1, n[1]), n[2]>>

\* the second property of a diagonal, on the cell the first one gave; that
\* cell is the object in the cache field, which keeps what it caches itself
Chained(r, d1, d2) == IF r[2].ok THEN Nested(r[1], d1, cardinal(r[2].val, d2)) ELSE r

\* Geohash.NE, .NW, .SE, .SW: self.N.E, self.N.W, self.S.E, self.S.W
diagonal(inst, k) == Chained(cardinal(inst, Diagonals[k][1]), Diagonals[k][1], Diagonals[k][2])

\* Neighbors8Dict._Keys_
Neighbors8Keys == <<"N", "NE", "E", "SE", "S", "SW", "W", "NW">>

\* the order the keyword arguments of Neighbors8Dict are evaluated in
NeighborsOrder == <<"N", "NE", "E", "SE", "S", "SW", "W", "NW">>

\* the property of a key
property(inst, k) == IF k \in DOMAIN Diagonals THEN diagonal(inst, k) ELSE cardinal(inst, k)

RECURSIVE neighbors_loop(_, _, _)
\* the next keyword argument after the property r was got
Gathered(r, keys, acc) ==
  IF r[2].ok THEN neighbors_loop(r[1], Tail(keys), [acc EXCEPT ![Head(keys)] = r[2].val])
  ELSE r

\* the keyword arguments of Neighbors8Dict, one property after the other; acc
\* is the dict so far, every key None by default
neighbors_loop(inst, keys, acc) ==
  IF keys = <<>> THEN <<inst, Return(acc)>> ELSE Gathered(property(inst, Head(keys)), keys, acc)

\* Geohash.neighbors: the 8 adjacent cells by key
neighbors(inst) ==
  neighbors_loop(inst, NeighborsOrder, [k \in {Neighbors8Keys[j] : j \in 1..Len(Neighbors8Keys)} |-> None])

(***************************************************************************)
(* Inputs.                                                                 *)
(***************************************************************************)
RECURSIVE StringsOf(_, _)
\* the strings of exactly n characters of A
StringsOf(A, n) == IF n = 0 THEN {<<>>} ELSE {Append(t, a) : t \in StringsOf(A, n - 1), a \in A}

Alphabet == {_GeohashBase32[k] : k \in 1..Len(_GeohashBase32)}

Repeat(c, n) == [k \in 1..n |-> c]

Str(s) == [type |-> "str", s |-> s]

\* characters at the corners, the edges and the middle of a cell
CornerChars == {"0", "b", "p", "z", "7", "k", "s", "e"}

\* every geohash of one and of two characters, those of up to MaxLen
\* characters that stay at the corners, the edges and the middle of their
\* parents, and some of full length
Geohashes == UNION {StringsOf(IF n <= 2 THEN Alphabet ELSE CornerChars, n) : n \in 1..MaxLen}
LongGeohashes == {Repeat(c, _MaxPrec) : c \in {"0", "7", "k", "s", "z"}}
                   \cup {<<"u","1","2","0","f","x","w">>, <<"g","b","z","z","z","z","z","z","z","z","z","z">>,
                         <<"s">> \o Repeat("z", _MaxPrec - 1)}

\* raw strings: valid and invalid characters, both cases, lengths 0 to 13
RawChars == {"0", "9", "b", "z", "B", "Z", "a", "i", "l", "o", "A", "-", " "}
RawStrings == UNION {StringsOf(RawChars, n) : n \in 0..MaxLen}
                \cup {Repeat(c, n) : c \in {"0", "Z", "a"}, n \in (_MaxPrec - 1)..(_MaxPrec + 1)}

\* coordinates: the lines of a grid of 2^GridBits steps per axis, which are
\* box edges, and their neighbours on either side; the outermost lie
\* outside the domain
CoordOffsets == {-1, 0, 1}
Coords == {k * 2^(31 - GridBits) + o : k \in (-(2^(GridBits - 1)))..(2^(GridBits - 1)), o \in CoordOffsets}

\* coordinates that are the exact centre of a cell of 1, 2 or 7 characters
CentredCells == StringsOf(Alphabet, 1) \cup {<<"u","1">>, <<"z","z">>, <<"0","0">>, <<"u","1","2","0","f","x","w">>}

\* geohashes for decode_error: also of 11 characters, and an invalid one
ErrorGeohashes == Geohashes \cup LongGeohashes \cup {Repeat(c, _MaxPrec - 1) : c \in {"0", "u", "z"}} \cup {<<"a">>}

Precisions == {None} \cup {<<p>> : p \in 0..(_MaxPrec + 1)}

\* resolutions: 360 and 1 degree halved any number of times, and 100, 0, -1
Resolutions == {[m |-> 45, e |-> k] : k \in (-60)..3} \cup {[m |-> 1, e |-> k] : k \in (-30)..0}
                 \cup {[m |-> 25, e |-> 2], [m |-> 0, e |-> 0], [m |-> -1, e |-> 0]}

OptPrecs == {None} \cup {<<p>> : p \in (-1)..(_MaxPrec + 2)}

\* geohashes for the distance estimate: equal, prefixes of each other, diverging
DistanceStrings == UNION {StringsOf({"0", "u", "z"}, n) : n \in 1..(MaxLen + 1)}
                     \cup {Repeat("u", _MaxPrec), Repeat("u", _MaxPrec - 1) \o <<"0">>, <<"a">>}

(***************************************************************************)
(* SpecFn: one call of a function of the module.  Init draws the call, the *)
(* action of the function called applies it.                              *)
(***************************************************************************)
InitFn ==
  /\ ret = None
  /\ self = NoGeohash
  /\ \/ \E lat \in Coords, lon \in Coords, pr \in Precisions :
          args = [op |-> "encode", lat |-> lat, lon |-> lon, precision |-> pr]
     \/ \E g \in CentredCells, pr \in {None, <<1>>, <<_MaxPrec>>} :
          args = [op |-> "encode", lat |-> _2center(bounds4(g))[1], lon |-> _2center(bounds4(g))[2],
                  precision |-> pr]
     \/ \E g \in Geohashes \cup LongGeohashes \cup CentredCells :
          args = [op |-> "encode", lat |-> _2center(bounds4(g))[1], lon |-> _2center(bounds4(g))[2],
                  precision |-> <<Len(g)>>, centre_of |-> g]
     \/ \E g \in Geohashes \cup LongGeohashes \cup {<<"a">>} :
          args = [op |-> "bounds", geohash |-> Str(g)]
     \/ \E g \in ErrorGeohashes :
          args = [op |-> "decode_error", geohash |-> Str(g)]
     \/ \E r \in RawStrings :
          args = [op |-> "Geohash", cll |-> Str(r), precision |-> None]
     \/ \E a \in DistanceStrings, b \in DistanceStrings :
          args = [op |-> "distance1", geohash1 |-> Str(a), geohash2 |-> Str(b)]
     \/ \E r1 \in Resolutions, r2 \in {None} \cup {<<r>> : r \in Resolutions} :
          args = [op |-> "precision", res1 |-> r1, res2 |-> r2]
     \/ \E p1 \in OptPrecs, p2 \in OptPrecs :
          args = [op |-> "resolution2", prec1 |-> p1, prec2 |-> p2]

Called(op) == ret = None /\ args.op = op

Encode ==
  /\ Called("encode")
  /\ ret' = encode(args.lat, args.lon, args.precision)
  /\ UNCHANGED <<self, args>>

Bounds ==
  /\ Called("bounds")
  /\ ret' = bounds(args.geohash)
  /\ UNCHANGED <<self, args>>

DecodeError ==
  /\ Called("decode_error")
  /\ ret' = decode_error(args.geohash)
  /\ UNCHANGED <<self, args>>

New ==
  /\ Called("Geohash")
  /\ ret' = Geohash(args.cll, args.precision)
  /\ UNCHANGED <<self, args>>

Distance1 ==
  /\ Called("distance1")
  /\ ret' = distance1(args.geohash1, args.geohash2)
  /\ UNCHANGED <<self, args>>

Precision ==
  /\ Called("precision")
  /\ ret' = precision(args.res1, args.res2)
  /\ UNCHANGED <<self, args>>

Resolution2 ==
  /\ Called("resolution2")
  /\ ret' = Return(resolution2(args.prec1, args.prec2))
  /\ UNCHANGED <<self, args>>

NextFn == Encode \/ Bounds \/ DecodeError \/ New \/ Distance1 \/ Precision \/ Resolution2

SpecFn == InitFn /\ [][NextFn]_vars

(***************************************************************************)
(* SpecAdj: one call of adjacent, in a cardinal direction, on a fresh      *)
(* instance of any geohash.                                                *)
(***************************************************************************)
InitAdj ==
  /\ \E g \in Geohashes \cup LongGeohashes : self = Geohash(Str(g), None).val
  /\ args = None
  /\ ret = None

Adjacent(direction) ==
  /\ ret = None
  /\ args' = [op |-> "adjacent", direction |-> direction]
  /\ ret' = adjacent(self, direction)
  /\ UNCHANGED self

\* self.neighbors
Neighbors ==
  /\ ret = None
  /\ args' = [op |-> "neighbors"]
  /\ self' = neighbors(self)[1]
  /\ ret' = neighbors(self)[2]

NextAdj == (\E d \in DOMAIN _Neighbor : Adjacent(<<d>>)) \/ Neighbors

SpecAdj == InitAdj /\ [][NextAdj]_vars

(***************************************************************************)
(* Spec: the life of one Geohash instance: it is constructed, then its     *)
(* methods and properties are called in any order.                         *)
(***************************************************************************)
LatLon(lat, lon) == [type |-> "LatLon", lat |-> lat, lon |-> lon]

\* what an instance is constructed from
Clls ==
  {Str(t) : t \in {<<"4","5",",","9","0">>, <<"-","4","5",",","-","9","0",",","7">>,
                   <<"1","3","5",",","0">>, <<"x",",","0">>}}
  \cup {Str(g) : g \in {<<"u">>, <<"U","1">>, <<"z","z">>, <<"a">>, <<>>}}
  \cup {LatLon(2^29 + 1, -5), LatLon(Deg90 + 1, 0)}
  \cup {[type |-> "Geohash", inst |-> NewGeohash(<<"u","1">>, None)], [type |-> "object"]}

CllPrecisions == {None, <<0>>, <<1>>, <<2>>}

\* the directions of adjacent
CellDirections == {<<"N">>, <<"w">>, <<"N","E">>, <<>>, <<"X">>}

\* the other geohash of distance1To
Others == {Str(<<"u">>), Str(<<"a">>), [type |-> "Geohash", inst |-> NewGeohash(<<"z","z">>, None)]}

Init == self = NoGeohash /\ args = None /\ ret = None

\* what a property leaves and gives: r is <<the instance afterwards, the result>>
Gets(r) == self' = r[1] /\ ret' = r[2]

\* no instance is made when __new__ raises
Constructed(r) == <<IF r.ok THEN r.val ELSE self, r>>

\* Geohash(cll, precision)
Construct(cll, prec) ==
  /\ self = NoGeohash /\ ret = None
  /\ args' = [op |-> "Geohash", cll |-> cll, precision |-> prec]
  /\ Gets(Constructed(Geohash(cll, prec)))

\* self.adjacent(direction)
AdjacentTo(direction) ==
  /\ self # NoGeohash
  /\ args' = [op |-> "adjacent", direction |-> direction]
  /\ ret' = adjacent(self, direction)
  /\ UNCHANGED self

\* self.bounds()
BoundsOf ==
  /\ self # NoGeohash
  /\ args' = [op |-> "bounds"]
  /\ Gets(bounds_m(self))

\* self.latlon
LatLonOfSelf ==
  /\ self # NoGeohash
  /\ args' = [op |-> "latlon"]
  /\ Gets(latlon(self))

\* self.N, self.S, self.E, self.W
Cardinal(d) ==
  /\ self # NoGeohash
  /\ args' = [op |-> d]
  /\ Gets(cardinal(self, d))

\* self.NE, self.NW, self.SE, self.SW
Diagonal(k) ==
  /\ self # NoGeohash
  /\ args' = [op |-> k]
  /\ Gets(diagonal(self, k))

\* self.neighbors
NeighborsOfSelf ==
  /\ self # NoGeohash
  /\ args' = [op |-> "neighbors"]
  /\ Gets(neighbors(self))

\* self.distance1To(other)
Distance1To(other) ==
  /\ self # NoGeohash
  /\ args' = [op |-> "distance1To", other |-> other]
  /\ ret' = distance1To(self, other)
  /\ UNCHANGED self

Next ==
  \/ \E cll \in Clls, prec \in CllPrecisions : Construct(cll, prec)
  \/ \E direction \in CellDirections : AdjacentTo(direction)
  \/ BoundsOf
  \/ LatLonOfSelf
  \/ \E d \in DOMAIN _Neighbor : Cardinal(d)
  \/ \E other \in Others : Distance1To(other)

Spec == Init /\ [][Next]_vars

(***************************************************************************)
(* SpecCache: the cached properties of one instance, got in any order any  *)
(* number of times by a single thread.                                     *)
(***************************************************************************)
\* what the instance was constructed from: a geohash, a one-character cell
\* at the edge of the domain, a location
CachedClls == {Str(<<"u", "1">>), Str(<<"z">>), LatLon(2^29 + 1, -5)}

InitCache ==
  /\ \E cll \in CachedClls : self = Geohash(cll, <<2>>).val
  /\ args = None
  /\ ret = None

NextCache ==
  \/ BoundsOf
  \/ LatLonOfSelf
  \/ \E d \in DOMAIN _Neighbor : Cardinal(d)
  \/ \E k \in DOMAIN Diagonals : Diagonal(k)
  \/ NeighborsOfSelf

SpecCache == InitCache /\ [][NextCache]_vars

(***************************************************************************)
(* SpecThreads: several threads get cached properties of one instance,     *)
(* each step by step: the check of the cache field, the computation, the   *)
(* store into the field and the return, which reads the field again.  A    *)
(* read or a write of an attribute is one step; nothing is locked.  Here   *)
(* args and ret are per thread: args[t] is the frame of thread t, the      *)
(* property it gets, its position and its local value.                     *)
(***************************************************************************)
Threads == 1..NumThreads

ThreadProperties == {"bounds", "latlon", "N", "S", "E", "W"}

Idle == [op |-> "", pc |-> "idle", tmp |-> None]

Frame(op, pc, tmp) == [op |-> op, pc |-> pc, tmp |-> tmp]

\* the cache field of a property
Field(inst, k) ==
  IF k = "bounds" THEN inst._bounds ELSE IF k = "latlon" THEN inst._latlon ELSE Cached(inst, k)

\* a property that would never find its field empty
NeverEmpty(inst, k) == FALSE

\* "if not self._bounds", "if not self._latlon", "if self._N is None"
IsEmpty(inst, k) == Field(inst, k) = None

\* the right-hand side of the assignment to the field: bounds(self), the
\* centre of what self.bounds() returned, self.adjacent(d)
Computed(inst, k, tmp) ==
  IF k = "bounds" THEN bounds([type |-> "Geohash", inst |-> inst])
  ELSE IF k = "latlon" THEN Return(_2center(tmp))
  ELSE adjacent(inst, <<k>>)

\* the assignment to the field
Put(inst, k, v) ==
  IF k = "bounds" THEN [inst EXCEPT !._bounds = v]
  ELSE IF k = "latlon" THEN [inst EXCEPT !._latlon = v]
  ELSE WithCached(inst, k, v)

InitThreads ==
  /\ \E g \in {<<"u", "1">>, <<"z">>} : self = Geohash(Str(g), None).val
  /\ args = [t \in Threads |-> Idle]
  /\ ret = [t \in Threads |-> None]

\* thread t moves on: its frame becomes f
Moves(t, f) == args' = [args EXCEPT ![t] = f]

\* thread t starts to get the property k
Get(t, k) ==
  /\ args[t].pc = "idle"
  /\ Moves(t, Frame(k, "check", None))
  /\ UNCHANGED <<self, ret>>

\* the check of the field; latlon goes on to call self.bounds()
Check(t) ==
  /\ args[t].pc = "check"
  /\ Moves(t, Frame(args[t].op,
                    IF ~IsEmpty(self, args[t].op) THEN "return"
                    ELSE IF args[t].op = "latlon" THEN "bounds_check" ELSE "compute",
                    None))
  /\ UNCHANGED <<self, ret>>

\* self.bounds() called by latlon: its check, its assignment, its return
BoundsCheck(t) ==
  /\ args[t].pc = "bounds_check"
  /\ Moves(t, Frame(args[t].op, IF IsEmpty(self, "bounds") THEN "bounds_compute" ELSE "bounds_return", None))
  /\ UNCHANGED <<self, ret>>

BoundsCompute(t) ==
  /\ args[t].pc = "bounds_compute"
  /\ Moves(t, Frame(args[t].op, "bounds_store", Computed(self, "bounds", None).val))
  /\ UNCHANGED <<self, ret>>

BoundsStore(t) ==
  /\ args[t].pc = "bounds_store"
  /\ self' = Put(self, "bounds", args[t].tmp)
  /\ Moves(t, Frame(args[t].op, "bounds_return", None))
  /\ UNCHANGED ret

BoundsReturn(t) ==
  /\ args[t].pc = "bounds_return"
  /\ Moves(t, Frame(args[t].op, "compute", self._bounds))
  /\ UNCHANGED <<self, ret>>

\* the value is computed; an error raised ends the access
Compute(t) ==
  /\ args[t].pc = "compute"
  /\ IF Computed(self, args[t].op, args[t].tmp).ok
       THEN /\ Moves(t, Frame(args[t].op, "store", Computed(self, args[t].op, args[t].tmp).val))
            /\ UNCHANGED ret
       ELSE /\ Moves(t, Frame(args[t].op, "done", None))
            /\ ret' = [ret EXCEPT ![t] = Computed(self, args[t].op, args[t].tmp)]
  /\ UNCHANGED self

\* the value is stored into the field
Store(t) ==
  /\ args[t].pc = "store"
  /\ self' = Put(self, args[t].op, args[t].tmp)
  /\ Moves(t, Frame(args[t].op, "return", None))
  /\ UNCHANGED ret

\* the field is read again and returned
ReturnField(t) ==
  /\ args[t].pc = "return"
  /\ ret' = [ret EXCEPT ![t] = Return(Field(self, args[t].op))]
  /\ Moves(t, Frame(args[t].op, "done", None))
  /\ UNCHANGED self

NextThreads ==
  \E t \in Threads :
    \/ \E k \in ThreadProperties : Get(t, k)
    \/ Check(t)
    \/ BoundsCheck(t)
    \/ BoundsCompute(t)
    \/ BoundsStore(t)
    \/ BoundsReturn(t)
    \/ Compute(t)
    \/ Store(t)
    \/ ReturnField(t)

SpecThreads == InitThreads /\ [][NextThreads]_vars

(***************************************************************************)
(* SpecWalk: a walk from cell to adjacent cell in any directions; self is  *)
(* the cell the walk has reached.                                          *)
(***************************************************************************)
\* where a walk starts: every cell of one character, cells of two at the
\* corners of the domain, the long geohashes
WalkStarts == StringsOf(Alphabet, 1) \cup {<<"z", "z">>, <<"0", "0">>, <<"b", "p">>} \cup LongGeohashes

InitWalk ==
  /\ \E g \in WalkStarts : self = Geohash(Str(g), None).val
  /\ args = [op |-> "start", steps |-> 0]
  /\ ret = None

\* the cell a call of adjacent leads to: the one returned, the same when it raised
Reached(inst, r) == IF r.ok THEN r.val ELSE inst

\* self = self.adjacent(direction)
Walk(direction) ==
  /\ args.steps < MaxSteps
  /\ args' = [op |-> "adjacent", direction |-> direction, from |-> self.gh, steps |-> args.steps + 1]
  /\ ret' = adjacent(self, direction)
  /\ self' = Reached(self, adjacent(self, direction))

NextWalk == \E d \in DOMAIN _Neighbor : Walk(<<d>>)

SpecWalk == InitWalk /\ [][NextWalk]_vars

(***************************************************************************)
(* SpecRec: one call of adjacent followed frame by frame.  args.stack      *)
(* holds the geohash of every call of adjacent that has been entered and   *)
(* has not returned, the outermost first; args.res is what the call that   *)
(* returned last hands to its caller, the frame then on top.               *)
(***************************************************************************)
\* a parent that would be the geohash itself
Whole(gh) == gh

\* p = self[:-1]
Parent(gh) == SubSeq(gh, 1, Len(gh) - 1)

\* i = _Neighbor[d][e].find(c), of the call on the geohash gh
Index(gh, d) == Find(_Neighbor[d][(Len(gh) % 2) + 1], gh[Len(gh)])

\* the call on gh goes on to p = Geohash(p).adjacent(d)
Carries(gh, d) ==
  Index(gh, d) >= 0 /\ LeavesParent(Parent(gh), gh[Len(gh)], d, Len(gh) % 2)

\* p + _GeohashBase32[i]; nothing is appended for a character not found
Appended(p, i) == IF i < 0 THEN p ELSE p \o <<_GeohashBase32[i + 1]>>

\* what a call ends with once i and the string s = p + _GeohashBase32[i]
\* are known: the error of a character not found, or Geohash(s)
Ended(s, i) == IF i < 0 THEN Raise("GeohashError") ELSE GeohashOfStr(s)

RecDirections == {<<"N">>, <<"S">>, <<"E">>, <<"W">>, <<"n">>, <<"X">>}

InitRec ==
  /\ \E g \in Geohashes \cup LongGeohashes : self = Geohash(Str(g), None).val
  /\ args = None
  /\ ret = None

\* the frame on top of the stack
Top == args.stack[Len(args.stack)]

Running == args # None /\ ret = None /\ args.stack # <<>>

\* the top frame ends with r: the caller gets it, or the whole call does
Delivered(r) ==
  IF Len(args.stack) = 1
  THEN ret' = r /\ args' = [args EXCEPT !.stack = <<>>, !.res = None]
  ELSE ret' = ret /\ args' = [args EXCEPT !.stack = SubSeq(@, 1, Len(@) - 1), !.res = r]

\* what a frame does with Geohash(p): it enters adjacent on it, or the
\* error of the construction is what it ends with
Entered(q) ==
  IF q.ok THEN args' = [args EXCEPT !.stack = Append(@, q.val.gh)]
  ELSE args' = [args EXCEPT !.res = q]

\* self.adjacent(direction) is called: the check of the direction
CallAdjacent(direction) ==
  /\ args = None
  /\ IF NotInNeighbor(DirectionKey(direction))
     THEN /\ args' = [op |-> "adjacent", direction |-> direction, d |-> "", stack |-> <<>>, res |-> None]
          /\ ret' = Raise("GeohashError")
     ELSE /\ args' = [op |-> "adjacent", direction |-> direction, d |-> DirectionKey(direction)[1],
                      stack |-> <<self.gh>>, res |-> None]
          /\ ret' = ret
  /\ UNCHANGED self

\* the top frame finds its last character on the border: Geohash(p).adjacent(d)
Recurse ==
  /\ Running /\ args.res = None
  /\ Carries(Top, args.d)
  /\ \E p \in {Parent(Top)} : Entered(GeohashOfStr(p))
  /\ UNCHANGED <<self, ret>>

\* the top frame needs no call: it returns, or raises for a character not found
ReturnDirect ==
  /\ Running /\ args.res = None
  /\ ~Carries(Top, args.d)
  /\ \E i \in {Index(Top, args.d)} : \E s \in {Appended(Parent(Top), i)} : Delivered(Ended(s, i))
  /\ UNCHANGED self

\* the top frame has got the adjacent parent: it returns; an error goes on up
ReturnCarried ==
  /\ Running /\ args.res # None
  /\ IF args.res.ok
     THEN \E i \in {Index(Top, args.d)} : \E s \in {Appended(args.res.val.gh, i)} : Delivered(Ended(s, i))
     ELSE Delivered(args.res)
  /\ UNCHANGED self

NextRec == (\E direction \in RecDirections : CallAdjacent(direction)) \/ Recurse \/ ReturnDirect \/ ReturnCarried

\* a frame that can take a step takes it
SpecRec == InitRec /\ [][NextRec]_vars /\ WF_vars(NextRec)

(***************************************************************************)
(* SpecCycle: a walk from cell to adjacent cell in one direction, as far   *)
(* as round the domain; self is the cell reached, args.visited the cells   *)
(* the walk has been on, args.prev the cell of the step before.            *)
(***************************************************************************)
\* the cells of L characters side by side round the domain in direction d:
\* 2^ceil(5L/2) columns, 2^floor(5L/2) rows
Cells(L, d) == IF d \in {"E", "W"} THEN 2^((5 * L + 1) \div 2) ELSE 2^((5 * L) \div 2)

\* the longest walk followed: once round with MaxLen characters
MaxCycle == Cells(MaxLen, "E")

\* where a walk round starts: every cell of one and of two characters, the
\* cells in two corners of the domain beyond, the long geohashes
CycleStarts ==
  UNION {StringsOf(IF n <= 2 THEN Alphabet ELSE {"0", "z"}, n) : n \in 1..MaxLen} \cup LongGeohashes

InitCycle ==
  /\ \E g \in CycleStarts :
       /\ self = Geohash(Str(g), None).val
       /\ args = [op |-> "start", direction |-> None, from |-> g, prev |-> g, steps |-> 0, visited |-> {}]
  /\ ret = None

\* self = self.adjacent(direction), in the direction of the walk
Onward(direction) ==
  /\ args.steps = 0 \/ args.direction = direction
  /\ args.steps < MaxCycle /\ args.steps < Cells(Len(args.from), direction[1])
  /\ args' = [op |-> "adjacent", direction |-> direction, from |-> args.from, prev |-> self.gh,
              steps |-> args.steps + 1, visited |-> args.visited \cup {self.gh}]
  /\ ret' = adjacent(self, direction)
  /\ self' = Reached(self, adjacent(self, direction))

NextCycle == \E d \in DOMAIN _Neighbor : Onward(<<d>>)

SpecCycle == InitCycle /\ [][NextCycle]_vars

(***************************************************************************)
(* Properties.                                                             *)
(***************************************************************************)
\* the order of a decimal t and x units: -1, 0 or 1 as |t| is less than,
\* equal to or greater than |x|, wr and dr the digits of |x|
AbsOrder(t, wr, dr) ==
  IF t.int # wr[1] THEN (IF t.int < wr[1] THEN -1 ELSE 1)
  ELSE IF t.frac # dr[1] THEN (IF t.frac < dr[1] THEN -1 ELSE 1)
  ELSE IF dr[2] > 0 THEN -1 ELSE 0

AbsOrderOf(t, wr, S) == AbsOrder(t, wr, Digits(wr[2], S, t.prec, 0))

\* -1, 0 or 1 as the decimal t is less than, equal to or greater than x units
Order(t, x, S) ==
  IF t.neg /\ x >= 0 THEN -1
  ELSE IF ~t.neg /\ x < 0 THEN 1
  ELSE IF t.neg THEN -AbsOrderOf(t, WholeAndRest(Abs(x), S), S)
  ELSE AbsOrderOf(t, WholeAndRest(Abs(x), S), S)

\* the box b = <<latS, lonW, latN, lonE>> contains the point ll, in units
Contains(b, ll) == b[1] <= ll[1] /\ ll[1] <= b[3] /\ b[2] <= ll[2] /\ ll[2] <= b[4]

\* the box contains the point given by two decimals
ContainsDecimal(b, t) ==
  /\ Order(t[1], b[1], LatShift) >= 0 /\ Order(t[1], b[3], LatShift) <= 0
  /\ Order(t[2], b[2], LonShift) >= 0 /\ Order(t[2], b[4], LonShift) <= 0

InDomain(lat, lon) == -Deg90 <= lat /\ lat <= Deg90 /\ -Deg180 <= lon /\ lon <= Deg180

\* the call made has returned
Returned(op) == args # None /\ args.op = op /\ ret # None

\* the box of an encoded geohash holds the point encoded, the centre of the
\* box, and the centre as decode rounds it
RoundTrip(b, gh, lat, lon) ==
  Contains(b, <<lat, lon>>) /\ Contains(b, _2center(b)) /\ ContainsDecimal(b, decode(gh))

\* C1: for every precision p in 1..12 and every coordinate of the domain,
\* encode(lat, lon, p) succeeds and the bounds of the geohash it returns
\* contain the coordinate and the centre decoded from the geohash
C1_RoundTripContainment ==
  (/\ Returned("encode")
   /\ InDomain(args.lat, args.lon)
   /\ args.precision \in {<<p>> : p \in 1.._MaxPrec})
  => (/\ ret.ok
      /\ bounds(Str(ret.val)).ok
      /\ RoundTrip(bounds(Str(ret.val)).val, ret.val, args.lat, args.lon))

\* a coordinate on the north-east corner of a box edge, encoded to 12 characters
C1_Witness ==
  /\ Returned("encode") /\ ret.ok
  /\ args.precision = <<_MaxPrec>>
  /\ args.lat = 2^(31 - GridBits) /\ args.lon = -1
  /\ Len(ret.val) = _MaxPrec

Opposite(d) == IF d = "N" THEN "S" ELSE IF d = "S" THEN "N" ELSE IF d = "E" THEN "W" ELSE "E"

\* the box b touches the edge of the domain on the side d
OnEdge(b, d) ==
  \/ d = "N" /\ b[3] = Deg90
  \/ d = "S" /\ b[1] = -Deg90
  \/ d = "E" /\ b[4] = Deg180
  \/ d = "W" /\ b[2] = -Deg180

TouchesEdge(gh, d) == OnEdge(bounds4(gh), d)

\* stepping back from the cell there leads to the geohash gh
StepsBackTo(there, d, gh) == there.ok /\ there.val.gh = gh

\* C2: for a geohash whose box does not touch the edge of the domain on the
\* side d, the cell adjacent in direction d exists, and the cell adjacent to
\* it in the opposite direction is the geohash itself
C2_AdjacencyInverse ==
  (Returned("adjacent") /\ ~TouchesEdge(self.gh, args.direction[1]))
  => (ret.ok /\ StepsBackTo(adjacent(ret.val, <<Opposite(args.direction[1])>>), args.direction[1], self.gh))

\* a step east out of a 12-character cell that leaves every parent up to the first character
C2_Witness ==
  /\ Returned("adjacent") /\ ret.ok
  /\ args.direction = <<"E">>
  /\ Len(self.gh) = _MaxPrec
  /\ ~TouchesEdge(self.gh, "E")
  /\ ret.val.gh[1] # self.gh[1]

\* the raw string is one to twelve characters of the alphabet, in either case
ValidRaw(raw) ==
  /\ Len(raw) \in 1.._MaxPrec
  /\ \A k \in 1..Len(raw) : \E c \in Alphabet : raw[k] = c \/ raw[k] = UpperChar(c)

\* gh is raw with its capitals made small
Lowercase(gh, raw) ==
  /\ Len(gh) = Len(raw)
  /\ \A k \in 1..Len(raw) : gh[k] \in Alphabet /\ (gh[k] = raw[k] \/ UpperChar(gh[k]) = raw[k])

C4_EncodeRejects ==
  (/\ Returned("encode")
   /\ \/ ~InDomain(args.lat, args.lon)
      \/ (args.precision # None /\ args.precision[1] \notin 1.._MaxPrec))
  => ret = Raise("GeohashError")

\* precision 0 is given for a coordinate of the domain
C4_Witness ==
  /\ Returned("encode") /\ ~ret.ok
  /\ InDomain(args.lat, args.lon)
  /\ args.precision = <<0>>

\* the direction begins with one of N, S, E, W, in either case
Cardinals == {"N", "S", "E", "W", "n", "s", "e", "w"}
BeginsCardinal(direction) == direction # <<>> /\ direction[1] \in Cardinals

RECURSIVE CommonPrefix(_, _)
CommonPrefix(a, b) ==
  IF a = <<>> \/ b = <<>> \/ Head(a) # Head(b) THEN 0 ELSE 1 + CommonPrefix(Tail(a), Tail(b))

\* C6: distance1(a, b) is the radial size of the size table at the index
\* that is the length of the common prefix of a and b, also when a = b and
\* when one is a prefix of the other
C6_Distance1ByCommonPrefix ==
  (Returned("distance1") /\ ret.ok)
  => ret.val = _Sizes[CommonPrefix(args.geohash1.s, args.geohash2.s) + 1][3]

\* res is at least as fine as the target
AsFine(res, target) == ~FLess(target, res)

\* precision p meets both targets
MeetsBoth(p, resLon, resLat) ==
  AsFine(resolution2(<<p>>, <<p>>)[1], resLon) /\ AsFine(resolution2(<<p>>, <<p>>)[2], resLat)

\* C7: precision(resLon, resLat) is the smallest p in 1..12 for which
\* resolution2(p, p) is at least as fine as both targets, and 12 when there
\* is none
C7_PrecisionMeetsBoth ==
  (Returned("precision") /\ ret.ok /\ args.res2 # None)
  => ret.val = IF \E p \in 1.._MaxPrec : MeetsBoth(p, args.res1, args.res2[1])
                 THEN Min({p \in 1.._MaxPrec : MeetsBoth(p, args.res1, args.res2[1])})
                 ELSE _MaxPrec

\* 360 degrees halved ceil(5p/2) times, 180 degrees halved floor(5p/2) times
Halved(p) == <<ldexp(f_360_0, -((5 * p + 1) \div 2)), ldexp(f_180_0, -((5 * p) \div 2))>>

SamePair(r, t) == FEqual(r[1], t[1]) /\ FEqual(r[2], t[2])

\* C8: for p in 1..12, resolution2(p) is the pair resolution2(p, p), which
\* is 360 halved ceil(5p/2) times and 180 halved floor(5p/2) times
C8_ResolutionDefault ==
  (Returned("resolution2") /\ args.prec2 = None /\ args.prec1 \in {<<p>> : p \in 1.._MaxPrec})
  => (/\ SamePair(ret.val, resolution2(args.prec1, args.prec1))
      /\ SamePair(ret.val, Halved(args.prec1[1])))

\* C9: for p in 1..12, precision applied to the two resolutions of
\* resolution2(p, p) returns p
C9_ResolutionInverse ==
  \A p \in 1.._MaxPrec :
    (/\ Returned("precision")
     /\ args.res1 = resolution2(<<p>>, <<p>>)[1]
     /\ args.res2 = <<resolution2(<<p>>, <<p>>)[2]>>)
    => ret = Return(p)

\* precision has returned 7 for the resolutions of resolution2(7, 7)
C9_Witness ==
  /\ Returned("precision")
  /\ args.res1 = resolution2(<<7>>, <<7>>)[1]
  /\ args.res2 = <<resolution2(<<7>>, <<7>>)[2]>>
  /\ ret = Return(7)

\* C10: whatever the instance was constructed from, its latlon is the
\* midpoint of its bounds on each axis
C10_CentreIsMidpoint ==
  (Returned("latlon") /\ ret.ok) => ret.val = _2center(bounds4(self.gh))

\* the centre of the cell gh as decode writes it: each axis rounded to
\* int(2 - log10(size)) decimal places
RoundedCentre(gh) ==
  Strings2(_2center(bounds4(gh)), bounds4(gh)[3] - bounds4(gh)[1], bounds4(gh)[4] - bounds4(gh)[2])

\* the decimals t are exactly the point (lat, lon)
EqualsDecimal(lat, lon, t) == Order(t[1], lat, LatShift) = 0 /\ Order(t[2], lon, LonShift) = 0

\* the candidate of precision p qualifies: its centre, rounded as decode
\* does, is the point encoded
QualifiesAt(lat, lon, p) == EqualsDecimal(lat, lon, RoundedCentre(encode_p(lat, lon, p)))

\* the candidate of precision p has the point encoded as its exact centre
ExactAt(lat, lon, p) == _2center(bounds4(encode_p(lat, lon, p))) = <<lat, lon>>

SmallestQualifying(lat, lon) ==
  IF \E p \in 1.._MaxPrec : QualifiesAt(lat, lon, p)
    THEN Min({p \in 1.._MaxPrec : QualifiesAt(lat, lon, p)}) ELSE _MaxPrec

SmallestExact(lat, lon) ==
  IF \E p \in 1.._MaxPrec : ExactAt(lat, lon, p)
    THEN Min({p \in 1.._MaxPrec : ExactAt(lat, lon, p)}) ELSE _MaxPrec

\* the call of encode with the precision omitted has returned
InferredCall == Returned("encode") /\ args.precision = None /\ InDomain(args.lat, args.lon)

InHalfOpen(b, lat, lon) ==
  /\ b[1] <= lat /\ (lat < b[3] \/ lat = Deg90)
  /\ b[2] <= lon /\ (lon < b[4] \/ lon = Deg180)

\* C12: a coordinate equal to the midpoint goes to the upper half and gives
\* bit 1: the cell encode returns has the coordinate on its lower edge or
\* inside, never on its upper edge but at the edge of the domain, and for
\* every p in 1..12 encode(0, 0, p) is "s" followed by p - 1 characters "0"
C12_MidpointTieBreak ==
  (/\ Returned("encode")
   /\ InDomain(args.lat, args.lon)
   /\ args.precision \in {<<p>> : p \in 1.._MaxPrec})
  => (/\ ret.ok
      /\ InHalfOpen(bounds4(ret.val), args.lat, args.lon)
      /\ (args.lat = 0 /\ args.lon = 0) => ret.val = <<"s">> \o Repeat("0", args.precision[1] - 1))

\* encode(0, 0, 12) has returned "s00000000000"
C12_Witness ==
  /\ Returned("encode")
  /\ args.lat = 0 /\ args.lon = 0 /\ args.precision = <<_MaxPrec>>
  /\ ret = Return(<<"s","0","0","0","0","0","0","0","0","0","0","0">>)

\* the cell adjacent to the geohash gh in direction d
Step(gh, d) == adjacent(NewGeohash(gh, None), <<d>>).val.gh

\* C13: neighbors returns exactly the eight keys N, NE, E, SE, S, SW, W, NW;
\* N, S, E, W are the cells adjacent in that direction and each diagonal is
\* two cardinal calls, the latitude first: NE is the cell east of the cell
\* north, got from the northern neighbour, which then holds it
C13_NeighborsCompose ==
  Returned("neighbors")
  => (/\ ret.ok
      /\ DOMAIN ret.val = {"N", "NE", "E", "SE", "S", "SW", "W", "NW"}
      /\ \A d \in {"N", "S", "E", "W"} : ret.val[d].gh = Step(self.gh, d)
      /\ ret.val["NE"].gh = Step(Step(self.gh, "N"), "E")
      /\ ret.val["NW"].gh = Step(Step(self.gh, "N"), "W")
      /\ ret.val["SE"].gh = Step(Step(self.gh, "S"), "E")
      /\ ret.val["SW"].gh = Step(Step(self.gh, "S"), "W")
      /\ \A k \in {"NE", "NW", "SE", "SW"} :
           /\ Cached(self, Diagonals[k][1]) # None
           /\ Cached(Cached(self, Diagonals[k][1]), Diagonals[k][2]) # None
           /\ Cached(Cached(self, Diagonals[k][1]), Diagonals[k][2]).gh = ret.val[k].gh
      /\ \A d \in {"E", "W"} : Cached(self, d)._N = None /\ Cached(self, d)._S = None)

\* the neighbours of a 12-character cell whose step north and whose step
\* east both leave the parent cell
C13_Witness ==
  /\ Returned("neighbors") /\ ret.ok
  /\ Len(self.gh) = _MaxPrec
  /\ ret.val["N"].gh[_MaxPrec - 1] # self.gh[_MaxPrec - 1]
  /\ ret.val["NE"].gh[_MaxPrec - 1] # ret.val["N"].gh[_MaxPrec - 1]

\* both errors of e are strictly smaller than those of f
BothSmaller(e, f) == e.ok /\ e.val[1] < f.val[1] /\ e.val[2] < f.val[2]

\* C14: for a valid geohash g of fewer than 12 characters, both components
\* of decode_error, half the height and half the width of the box, are
\* strictly smaller for every extension of g by one character
C14_DecodeErrorShrinks ==
  (Returned("decode_error") /\ ret.ok /\ Len(args.geohash.s) < _MaxPrec)
  => \A c \in Alphabet : BothSmaller(decode_error(Str(Append(args.geohash.s, c))), ret)

\* the errors of a geohash of 11 characters, whose extensions have the
\* smallest boxes there are
C14_Witness ==
  /\ Returned("decode_error") /\ ret.ok
  /\ Len(args.geohash.s) = _MaxPrec - 1
  /\ decode_error(Str(Append(args.geohash.s, "0"))) = Return(<<1, 1>>)

\* the cached neighbour object o is still there as n: the same cell, and
\* what it had cached itself is unchanged
SameCell(o, n) ==
  /\ n # None /\ n.gh = o.gh /\ n._bounds = o._bounds /\ n._latlon = o._latlon
  /\ \A d \in DOMAIN _Neighbor : Cached(o, d) # None => Cached(n, d) = Cached(o, d)

\* no filled cache of the instance old is cleared or overwritten in new
NeverCleared(old, new) ==
  /\ new.gh = old.gh
  /\ old._bounds # None => new._bounds = old._bounds
  /\ old._latlon # None => new._latlon = old._latlon
  /\ \A d \in DOMAIN _Neighbor : Cached(old, d) # None => SameCell(Cached(old, d), Cached(new, d))

\* the cache of the diagonal k: the E or W cache of the cached N or S neighbour
CachedDiagonal(inst, k) ==
  IF Cached(inst, Diagonals[k][1]) = None THEN None
  ELSE Cached(Cached(inst, Diagonals[k][1]), Diagonals[k][2])

\* the cache behind the property k, and all of them
CacheOf(inst, k) ==
  IF k = "bounds" THEN inst._bounds ELSE IF k = "latlon" THEN inst._latlon
  ELSE IF k \in DOMAIN Diagonals THEN CachedDiagonal(inst, k) ELSE Cached(inst, k)

CachedProperties == {"bounds", "latlon", "N", "S", "E", "W", "NE", "NW", "SE", "SW"}

\* an access to the property k that finds its cache filled computes nothing:
\* it returns what is cached and leaves the instance as it was; one that
\* finds it empty leaves it filled with what it returns
OnceOnly(k, old, new, r) ==
  /\ r.ok
  /\ CacheOf(new, k) = r.val
  /\ CacheOf(old, k) # None => (r.val = CacheOf(old, k) /\ new = old)

\* neighbors computes only what is not cached yet and returns the 8 cells cached
OnceOnlyEach(old, new, r) ==
  /\ r.ok
  /\ \A k \in {"N", "S", "E", "W", "NE", "NW", "SE", "SW"} :
       /\ CacheOf(new, k) # None /\ CacheOf(new, k).gh = r.val[k].gh
       /\ CacheOf(old, k) # None => CacheOf(new, k).gh = CacheOf(old, k).gh
  /\ (\A k \in {"N", "S", "E", "W", "NE", "NW", "SE", "SW"} : CacheOf(old, k) # None) => new = old
  /\ new._bounds = old._bounds /\ new._latlon = old._latlon

\* C15: in a single thread, over any sequence of accesses to bounds, latlon,
\* N, S, E, W, the diagonals and neighbors of one instance, a value is
\* computed only by an access that finds its cache empty, which leaves the
\* cache filled, so the bounds are computed at most once and adjacent is
\* called at most once for each of the 8 neighbours; a filled cache is
\* never cleared or overwritten; an access that finds the cache filled
\* returns the value cached by the first access; and latlon gets the bounds
\* through their cache
C15_LazyCaches ==
  [][/\ NeverCleared(self, self')
     /\ args'.op \in CachedProperties => OnceOnly(args'.op, self, self', ret')
     /\ args'.op = "neighbors" => OnceOnlyEach(self, self', ret')
     /\ (args'.op = "latlon" /\ self._latlon = None) => self'._bounds # None]_vars

\* neighbors has returned on an instance made from a geohash, every cache
\* of which is filled
C15_Witness ==
  /\ Returned("neighbors") /\ ret.ok
  /\ \A k \in CachedProperties : CacheOf(self, k) # None
  /\ self._latlon = _2center(self._bounds)

\* the one value of the property k of the cell gh: its box, the centre of
\* its box, the cell adjacent in direction k
CorrectValue(gh, k) ==
  IF k = "bounds" THEN bounds4(gh)
  ELSE IF k = "latlon" THEN _2center(bounds4(gh))
  ELSE NewGeohash(Step(gh, k), None)

\* C16: when threads interleave the check, the computation, the store and
\* the return of cached properties of one instance without a lock, in every
\* interleaving each cache field is empty or holds the one correct value,
\* every value a thread is about to store is that value, so the last writer
\* stores what the earlier writers stored, and every access returns it
C16_ConcurrentFirstAccess ==
  /\ \A k \in ThreadProperties : Field(self, k) \in {None, CorrectValue(self.gh, k)}
  /\ \A t \in Threads :
       /\ args[t].pc = "store" => args[t].tmp = CorrectValue(self.gh, args[t].op)
       /\ args[t].pc = "bounds_store" => args[t].tmp = CorrectValue(self.gh, "bounds")
       /\ args[t].pc = "done" => ret[t] = Return(CorrectValue(self.gh, args[t].op))

\* two threads found the same field empty: one has stored and returned, the
\* other is about to store over it
C16_Witness ==
  \E t \in Threads, u \in Threads :
    /\ t # u /\ args[t].op = args[u].op
    /\ args[t].pc = "done" /\ ret[t].ok
    /\ args[u].pc = "store"
    /\ Field(self, args[u].op) # None

\* the box a is the box of the size of b on the side d of b: the two share
\* that side of b, and a extends as far along it and away from it as b does
Abuts(a, b, d) ==
  /\ a[3] - a[1] = b[3] - b[1] /\ a[4] - a[2] = b[4] - b[2]
  /\ d = "N" => (a[1] = b[3] /\ a[2] = b[2] /\ a[4] = b[4])
  /\ d = "S" => (a[3] = b[1] /\ a[2] = b[2] /\ a[4] = b[4])
  /\ d = "E" => (a[2] = b[4] /\ a[1] = b[1] /\ a[3] = b[3])
  /\ d = "W" => (a[4] = b[2] /\ a[1] = b[1] /\ a[3] = b[3])

\* C17: for a geohash whose box does not touch the edge of the domain on the
\* side d, the cell adjacent in direction d has as many characters and its
\* box is the box of equal size sharing the side d of the box of the
\* geohash, also when the step leaves the parent cell
C17_AdjacentGeometry ==
  (Returned("adjacent") /\ ~TouchesEdge(self.gh, args.direction[1]))
  => (/\ ret.ok
      /\ Len(ret.val.gh) = Len(self.gh)
      /\ Abuts(bounds4(ret.val.gh), bounds4(self.gh), args.direction[1]))

\* a step north out of a 12-character cell into a cell of another first character
C17_Witness ==
  /\ Returned("adjacent") /\ ret.ok
  /\ args.direction = <<"N">>
  /\ Len(self.gh) = _MaxPrec
  /\ ~TouchesEdge(self.gh, "N")
  /\ ret.val.gh[1] # self.gh[1]
  /\ bounds4(ret.val.gh)[1] = bounds4(self.gh)[3]

\* gh is a valid geohash of n characters
ValidOfLength(gh, n) == Len(gh) = n /\ \A k \in 1..Len(gh) : gh[k] \in Alphabet

\* C18: on a walk from a valid geohash of L characters, every call of
\* adjacent in a direction N, S, E or W returns, raising no error, a valid
\* geohash of exactly L characters, also at a pole and at the antimeridian
C18_WalkStaysValid ==
  (args.op = "adjacent" /\ "from" \in DOMAIN args)
  => (/\ ret.ok
      /\ ret.val.gh = self.gh
      /\ ValidOfLength(self.gh, Len(args.from)))

\* the walk has come to the north edge of the domain and gone on north, in
\* 12 characters
C18_Witness ==
  /\ args.op = "adjacent" /\ "from" \in DOMAIN args
  /\ args.steps >= 2
  /\ args.direction = <<"N">>
  /\ TouchesEdge(args.from, "N")
  /\ ret.ok /\ Len(ret.val.gh) = _MaxPrec

\* the box b is well-formed, inside the domain, 360 / 2^ceil(5L/2) degrees
\* wide and 180 / 2^floor(5L/2) degrees high; 360 degrees of longitude and
\* 180 degrees of latitude are 2^31 units each
BoxShape(b, L) ==
  /\ b[1] < b[3] /\ b[2] < b[4]
  /\ -Deg90 <= b[1] /\ b[3] <= Deg90 /\ -Deg180 <= b[2] /\ b[4] <= Deg180
  /\ b[4] - b[2] = 2^(31 - (5 * L + 1) \div 2)
  /\ b[3] - b[1] = 2^(31 - (5 * L) \div 2)

\* C19: for every valid geohash of L characters, 1 to 12, the bounds have
\* south < north and west < east, lie inside the domain, are
\* 360 / 2^ceil(5L/2) wide and 180 / 2^floor(5L/2) high, and that width and
\* height are the pair resolution2(L, L) returns
C19_BoxShape ==
  (Returned("bounds") /\ ret.ok)
  => (/\ BoxShape(ret.val, Len(args.geohash.s))
      /\ SamePair(resolution2(<<Len(args.geohash.s)>>, <<Len(args.geohash.s)>>), Halved(Len(args.geohash.s))))

\* the table s spells every character of the alphabet exactly once
IsPermutation(s) ==
  /\ Len(s) = Len(_GeohashBase32)
  /\ \A c \in Alphabet : \E k \in 1..Len(s) : s[k] = c /\ \A j \in 1..Len(s) : s[j] = c => j = k

\* the 8 neighbour tables are permutations of the alphabet, the 8 border
\* tables hold characters of the alphabet
TablesComplete ==
  \A d \in DOMAIN _Neighbor : \A e \in 1..2 :
    /\ IsPermutation(_Neighbor[d][e])
    /\ \A k \in 1..Len(_Border[d][e]) : _Border[d][e][k] \in Alphabet

\* the lookups adjacent makes for the geohash gh in direction d find the
\* last character of gh, and of every parent a step reaches, in the table
LookupsFind(gh, d) ==
  \A n \in 1..Len(gh) : Find(_Neighbor[d][(n % 2) + 1], gh[n]) \in 0..(Len(_GeohashBase32) - 1)

\* C20: each of the 8 neighbour tables, 4 directions by 2 parities, is a
\* permutation of the alphabet and each border table holds characters of
\* the alphabet only, so for every valid geohash and every direction N, S,
\* E, W the lookup of a last character finds an index 0..31 and adjacent
\* never raises the error of a character not found
C20_TablesComplete ==
  /\ TablesComplete
  /\ Returned("adjacent") => (ret.ok /\ LookupsFind(self.gh, args.direction[1]))

\* a step south from the south-west corner of the domain, in 12
\* characters: every parent is stepped, down to the first character
C20_Witness ==
  /\ Returned("adjacent") /\ ret.ok
  /\ args.direction = <<"S">>
  /\ self.gh = Repeat("0", _MaxPrec)
  /\ Len(ret.val.gh) = _MaxPrec

\* every call of adjacent entered from another is on a geohash that is not
\* empty and is shorter than the geohash of the call it is entered from
Shortens(stack) ==
  \A k \in 2..Len(stack) : stack[k] # <<>> /\ Len(stack[k]) < Len(stack[k - 1])

\* the calls of adjacent in progress are no more than the geohash has
\* characters, 12 at most, and what the call returned is the adjacent cell
Nests(inst, a, r) ==
  /\ Shortens(a.stack)
  /\ Len(a.stack) <= Len(inst.gh) /\ Len(inst.gh) <= _MaxPrec
  /\ r # None => (r = adjacent(inst, a.direction) /\ (r.ok <=> ~NotInNeighbor(DirectionKey(a.direction))))

\* C21: for every valid geohash of L characters and every direction,
\* adjacent is entered again only on a geohash that is not empty and
\* strictly shorter, so that no more than L <= 12 calls of adjacent are
\* nested, and the call returns
C21_AdjacentTerminates ==
  /\ [](args # None => Nests(self, args, ret))
  /\ <>(ret # None)

\* a step north from the north edge in 12 characters: 12 calls are nested
C21_Witness ==
  /\ args # None /\ ret = None
  /\ Len(self.gh) = _MaxPrec
  /\ Len(args.stack) = _MaxPrec
  /\ Len(Top) = 1

\* C22: for every valid geohash g of L characters, the exact centre of the
\* bounds of g encoded at precision L is g itself
C22_DecodeEncodeRoundTrip ==
  (Returned("encode") /\ "centre_of" \in DOMAIN args) => ret = Return(args.centre_of)

\* the centre of a cell of 12 characters in the north-east corner of 's'
\* has been encoded at precision 12
C22_Witness ==
  /\ Returned("encode") /\ "centre_of" \in DOMAIN args
  /\ args.centre_of = <<"s">> \o Repeat("z", _MaxPrec - 1)
  /\ args.precision = <<_MaxPrec>>
  /\ ret.ok /\ Len(ret.val) = _MaxPrec

\* the box a lies inside the box b
Inside(a, b) == b[1] <= a[1] /\ a[3] <= b[3] /\ b[2] <= a[2] /\ a[4] <= b[4]

\* s has p characters, is the beginning of gh, and the box of gh lies
\* inside the box of s
PrefixOf(s, p, gh) ==
  /\ Len(s) = p
  /\ s = SubSeq(gh, 1, p)
  /\ Inside(bounds4(gh), bounds4(s))

\* C23: for every coordinate in the domain and precisions 1 <= p <= q <= 12,
\* encode(lat, lon, p) has exactly p characters and is the beginning of
\* encode(lat, lon, q), and the bounds of the longer geohash lie inside the
\* bounds of the shorter
C23_PrefixProperty ==
  (/\ Returned("encode") /\ InDomain(args.lat, args.lon)
   /\ args.precision # None /\ args.precision[1] \in 1.._MaxPrec)
  => (/\ ret.ok
      /\ Len(ret.val) = args.precision[1]
      /\ \A p \in 1..args.precision[1] : PrefixOf(encode_p(args.lat, args.lon, p), p, ret.val))

\* a point next to the equator and the prime meridian has been encoded
\* with 12 characters, the first 5 of them its encoding with 5
C23_Witness ==
  /\ Returned("encode")
  /\ args.lat = 1 /\ args.lon = -1 /\ args.precision = <<_MaxPrec>>
  /\ ret.ok /\ Len(ret.val) = _MaxPrec
  /\ encode_p(args.lat, args.lon, 5) = SubSeq(ret.val, 1, 5)

\* the box a is on the edge of the domain opposite to the side d, in the
\* row or the column of the box b
Wraps(a, b, d) ==
  /\ OnEdge(a, Opposite(d))
  /\ d \in {"E", "W"} => (a[1] = b[1] /\ a[3] = b[3])
  /\ d \in {"N", "S"} => (a[2] = b[2] /\ a[4] = b[4])

\* the walk of k steps in direction d from the cell from, on n cells round
\* the domain, has been on k distinct cells and is on one more, or, after n
\* steps, is back on the first
OnCycle(gh, from, visited, k, n) ==
  /\ Cardinality(visited) = k
  /\ from \in visited
  /\ k < n => gh \notin visited
  /\ k = n => gh = from

\* C24: for every valid geohash g of L characters, the steps east from g
\* are on 2^ceil(5L/2) distinct cells and then back on g, the steps north
\* on 2^floor(5L/2) distinct cells and then back on g (and so the steps
\* west and south); a cell on the edge of the domain steps to the cell on
\* the opposite edge of its row or column, and the step back from any cell
\* reached, in the opposite direction, leads to the cell it was reached from
C24_EdgeWrapCyclic ==
  args.op = "adjacent"
  => (/\ ret.ok /\ ret.val.gh = self.gh
      /\ OnCycle(self.gh, args.from, args.visited, args.steps, Cells(Len(args.from), args.direction[1]))
      /\ StepsBackTo(adjacent(self, <<Opposite(args.direction[1])>>), args.direction[1], args.prev)
      /\ TouchesEdge(args.prev, args.direction[1])
           => Wraps(bounds4(self.gh), bounds4(args.prev), args.direction[1]))

\* a walk east from a cell of 2 characters has crossed the antimeridian and
\* come back to the cell after 32 steps
C24_Witness ==
  /\ args.op = "adjacent" /\ args.direction = <<"E">>
  /\ Len(args.from) = 2
  /\ args.steps = 32
  /\ self.gh = args.from
  /\ \E g \in args.visited : TouchesEdge(g, "E")

\* the directions on the other axis
Across(d) == IF d \in {"N", "S"} THEN {"E", "W"} ELSE {"N", "S"}

\* C25: for every valid geohash, a step in a direction followed by a step
\* in a direction of the other axis reaches the cell the two steps reach in
\* the other order, for the pairs (N, E), (N, W), (S, E) and (S, W), also
\* at the corners of a parent cell and at the edges of the domain
C25_CardinalStepsCommute ==
  (Returned("adjacent") /\ ret.ok)
  => \A d2 \in Across(args.direction[1]) :
       Step(ret.val.gh, d2) = Step(Step(self.gh, d2), args.direction[1])

\* the steps north and east from the north-east corner of the domain, in
\* 12 characters, reach the south-west corner in either order
C25_Witness ==
  /\ Returned("adjacent") /\ ret.ok
  /\ args.direction = <<"N">>
  /\ self.gh = Repeat("z", _MaxPrec)
  /\ Step(ret.val.gh, "E") = Repeat("0", _MaxPrec)
  /\ Step(Step(self.gh, "E"), "N") = Repeat("0", _MaxPrec)

====
